---- MODULE Spec2Model ----
(***************************************************************************)
(* A model of SmartResizer.process (src/SmartResizer/SmartResizer.py).     *)
(*                                                                         *)
(* process is one deterministic procedure: classify the aspect ratio of    *)
(* the batch, select the target dimensions from the preset table, then for *)
(* every image of the batch compute a pad (letterbox) or crop transform    *)
(* and collect the result.  The arithmetic of the procedure is Python      *)
(* float arithmetic (IEEE 754 binary64, round to nearest, ties to even):   *)
(* `/` on two ints is the correctly rounded quotient, int() truncates.     *)
(* The model computes every float the code computes, bit for bit, on       *)
(* arbitrary-precision naturals held as sequences of limbs.                *)
(***************************************************************************)
EXTENDS Integers, Sequences, FiniteSets, TLC

(***************************************************************************)
(* Arbitrary-precision naturals: little-endian sequences of limbs in       *)
(* 0..Base-1 with no leading zero limb; <<>> is zero.                      *)
(***************************************************************************)
Base == 2 ^ 15

RECURSIVE BN(_)
BN(n) == IF n = 0 THEN <<>> ELSE <<n % Base>> \o BN(n \div Base)

RECURSIVE BToInt(_)
BToInt(a) == IF a = <<>> THEN 0 ELSE Head(a) + Base * BToInt(Tail(a))

RECURSIVE BTrim(_)
BTrim(a) ==
    IF a = <<>> THEN <<>>
    ELSE IF a[Len(a)] = 0 THEN BTrim(SubSeq(a, 1, Len(a) - 1))
    ELSE a

RECURSIVE BCmpAt(_, _, _)
BCmpAt(a, b, i) ==
    IF i = 0 THEN 0
    ELSE IF a[i] # b[i] THEN (IF a[i] < b[i] THEN -1 ELSE 1)
    ELSE BCmpAt(a, b, i - 1)

\* -1, 0 or 1 as a < b, a = b or a > b
BCmp(a, b) ==
    IF Len(a) # Len(b) THEN (IF Len(a) < Len(b) THEN -1 ELSE 1)
    ELSE BCmpAt(a, b, Len(a))

Limb(a, i) == IF i <= Len(a) THEN a[i] ELSE 0

RECURSIVE BAddAt(_, _, _, _)
BAddAt(a, b, i, c) ==
    IF i > Len(a) /\ i > Len(b)
    THEN (IF c = 0 THEN <<>> ELSE <<c>>)
    ELSE LET x == Limb(a, i) + Limb(b, i) + c
         IN  <<x % Base>> \o BAddAt(a, b, i + 1, x \div Base)

BAdd(a, b) == BAddAt(a, b, 1, 0)

RECURSIVE BSubAt(_, _, _, _)
BSubAt(a, b, i, c) ==
    IF i > Len(a) THEN <<>>
    ELSE LET x == a[i] - Limb(b, i) - c
         IN  IF x < 0
             THEN <<x + Base>> \o BSubAt(a, b, i + 1, 1)
             ELSE <<x>> \o BSubAt(a, b, i + 1, 0)

\* a - b for a >= b
BSub(a, b) == BTrim(BSubAt(a, b, 1, 0))

RECURSIVE BMulSAt(_, _, _, _)
BMulSAt(a, k, i, c) ==
    IF i > Len(a)
    THEN (IF c = 0 THEN <<>> ELSE <<c>>)
    ELSE LET x == a[i] * k + c
         IN  <<x % Base>> \o BMulSAt(a, k, i + 1, x \div Base)

\* a * k for one limb k
BMulS(a, k) == IF k = 0 THEN <<>> ELSE BMulSAt(a, k, 1, 0)

Zeros(n) == [i \in 1..n |-> 0]

RECURSIVE BMulAt(_, _, _)
BMulAt(a, b, i) ==
    IF i > Len(b) THEN <<>>
    ELSE BAdd(IF b[i] = 0 THEN <<>> ELSE Zeros(i - 1) \o BMulS(a, b[i]),
              BMulAt(a, b, i + 1))

BMul(a, b) == IF a = <<>> \/ b = <<>> THEN <<>> ELSE BMulAt(a, b, 1)

RECURSIVE BDivSAt(_, _, _, _)
BDivSAt(a, k, i, r) ==
    IF i = 0 THEN <<>>
    ELSE LET x == r * Base + a[i]
         IN  BDivSAt(a, k, i - 1, x % k) \o <<x \div k>>

\* floor(a / k) for one limb k > 0
BDivS(a, k) == BTrim(BDivSAt(a, k, Len(a), 0))

RECURSIVE BitLen(_)
BitLen(n) == IF n = 0 THEN 0 ELSE 1 + BitLen(n \div 2)

LimbBits == BitLen(Base - 1)

\* a * 2^n
BShl(a, n) ==
    IF a = <<>> THEN <<>>
    ELSE Zeros(n \div LimbBits) \o BMulS(a, 2 ^ (n % LimbBits))

\* floor(a / 2^n)
BShr(a, n) ==
    IF Len(a) <= n \div LimbBits THEN <<>>
    ELSE BDivS(SubSeq(a, (n \div LimbBits) + 1, Len(a)), 2 ^ (n % LimbBits))

\* number of bits of a
BLen(a) == IF a = <<>> THEN 0 ELSE LimbBits * (Len(a) - 1) + BitLen(a[Len(a)])

RECURSIVE LowZeros(_)
LowZeros(n) == IF n % 2 = 1 THEN 0 ELSE 1 + LowZeros(n \div 2)

RECURSIVE ZeroLimbs(_, _)
ZeroLimbs(a, i) == IF a[i] # 0 THEN 0 ELSE 1 + ZeroLimbs(a, i + 1)

\* number of trailing zero bits of a > 0
BLowZeros(a) ==
    LET z == ZeroLimbs(a, 1) IN LimbBits * z + LowZeros(a[z + 1])

BOdd(a) == a # <<>> /\ a[1] % 2 = 1

\* the largest t < 2^(bit+1) + acc, t = acc on the bits above `bit`, with
\* d * t <= r: one quotient digit of r / d, found bit by bit from the top
RECURSIVE Digit(_, _, _, _)
Digit(r, d, bit, acc) ==
    IF bit < 0 THEN acc
    ELSE IF BCmp(BMulS(d, acc + 2 ^ bit), r) <= 0
    THEN Digit(r, d, bit - 1, acc + 2 ^ bit)
    ELSE Digit(r, d, bit - 1, acc)

\* long division of a by d > 0 over the limbs i..Len(a) of a:
\* q = floor(a[i..] / d), r = a[i..] - q * d
RECURSIVE DivAt(_, _, _)
DivAt(a, d, i) ==
    IF i > Len(a) THEN [q |-> <<>>, r |-> <<>>]
    ELSE LET p == DivAt(a, d, i + 1)
             r == BTrim(<<a[i]>> \o p.r)
         IN  IF BCmp(r, d) < 0
             THEN [q |-> BTrim(<<0>> \o p.q), r |-> r]
             ELSE LET t == Digit(r, d, LimbBits - 1, 0)
                  IN  [q |-> <<t>> \o p.q, r |-> BSub(r, BMulS(d, t))]

(***************************************************************************)
(* Python floats.  A float is [neg, m, e] with value (-1)^neg * m * 2^e,   *)
(* m a natural of at most MantBits bits, kept odd (or zero, with e = 0) so *)
(* that equal values have equal representations.  The exponents the        *)
(* procedure meets are far from the subnormal and overflow ranges.         *)
(***************************************************************************)
MantBits == 53

FZero == [neg |-> FALSE, m |-> <<>>, e |-> 0]

\* the canonical form of m * 2^e, m of at most MantBits bits
FCanon(neg, m, e) ==
    IF m = <<>> THEN FZero
    ELSE LET z == BLowZeros(m)
         IN  [neg |-> neg, m |-> BShr(m, z), e |-> e + z]

\* round (q + f) * 2^e to the nearest float, ties to even, where 0 <= f < 1
\* and sticky says that f > 0 (sticky is FALSE when q has fewer than
\* MantBits + 2 bits)
FRound(neg, q, sticky, e) ==
    LET L == BLen(q) IN
    IF L <= MantBits THEN FCanon(neg, q, e)
    ELSE LET s    == L - MantBits
             m    == BShr(q, s)
             rem  == BSub(q, BShl(m, s))
             c    == BCmp(rem, BShl(<<1>>, s - 1))
             up   == c > 0 \/ (c = 0 /\ (sticky \/ BOdd(m)))
         IN  FCanon(neg, IF up THEN BAdd(m, <<1>>) ELSE m, e + s)

\* the float nearest to (n / d) * 2^e, for naturals n > 0 and d > 0: the
\* quotient of n * Base^j by d, with j such that it has MantBits + 2 bits or more
FRoundRat(neg, n, d, e) ==
    LET need == MantBits + 2 + BLen(d) - BLen(n)
        j    == IF need <= 0 THEN 0 ELSE (need + LimbBits - 1) \div LimbBits
        qr   == DivAt(Zeros(j) \o n, d, 1)
    IN  FRound(neg, qr.q, qr.r # <<>>, e - LimbBits * j)

\* float(n) of an int n
FInt(n) == FCanon(n < 0, BN(IF n < 0 THEN -n ELSE n), 0)

FNeg(a) == IF a.m = <<>> THEN a ELSE [a EXCEPT !.neg = ~a.neg]

FAbs(a) == [a EXCEPT !.neg = FALSE]

\* the magnitudes of a and b over their common exponent
FAlign(a, b) ==
    LET e == IF a.e < b.e THEN a.e ELSE b.e
    IN  [a |-> BShl(a.m, a.e - e), b |-> BShl(b.m, b.e - e), e |-> e]

\* -1, 0 or 1 as a < b, a = b or a > b
FCmp(a, b) ==
    IF a.m = <<>> /\ b.m = <<>> THEN 0
    ELSE IF a.m = <<>> THEN (IF b.neg THEN 1 ELSE -1)
    ELSE IF b.m = <<>> THEN (IF a.neg THEN -1 ELSE 1)
    ELSE IF a.neg # b.neg THEN (IF a.neg THEN -1 ELSE 1)
    ELSE LET al == FAlign(a, b)
             c  == BCmp(al.a, al.b)
         IN  IF a.neg THEN -c ELSE c

FLess(a, b) == FCmp(a, b) < 0

FGreater(a, b) == FCmp(a, b) > 0

\* a + b
FAdd(a, b) ==
    IF a.m = <<>> THEN b
    ELSE IF b.m = <<>> THEN a
    ELSE LET al == FAlign(a, b)
             c  == BCmp(al.a, al.b)
         IN  IF a.neg = b.neg THEN FRound(a.neg, BAdd(al.a, al.b), FALSE, al.e)
             ELSE IF c = 0 THEN FZero
             ELSE IF c > 0 THEN FRound(a.neg, BSub(al.a, al.b), FALSE, al.e)
             ELSE FRound(b.neg, BSub(al.b, al.a), FALSE, al.e)

\* a - b
FSub(a, b) == FAdd(a, FNeg(b))

\* a * b
FMul(a, b) ==
    IF a.m = <<>> \/ b.m = <<>> THEN FZero
    ELSE FRound(a.neg # b.neg, BMul(a.m, b.m), FALSE, a.e + b.e)

\* a / b for b # 0
FDiv(a, b) ==
    IF a.m = <<>> THEN FZero
    ELSE FRoundRat(a.neg # b.neg, a.m, b.m, a.e - b.e)

FMin(a, b) == IF FLess(b, a) THEN b ELSE a

\* int(a): truncation toward zero
FTrunc(a) ==
    LET n == IF a.e >= 0 THEN BToInt(BShl(a.m, a.e))
             ELSE BToInt(BShr(a.m, -a.e))
    IN  IF a.neg THEN -n ELSE n

\* round(a): the nearest integer, ties to the even one
PyRound(a) ==
    IF a.e >= 0 THEN FTrunc(a)
    ELSE LET fl   == BShr(a.m, -a.e)
             rem  == BSub(a.m, BShl(fl, -a.e))
             c    == BCmp(rem, BShl(<<1>>, -a.e - 1))
             up   == c > 0 \/ (c = 0 /\ BOdd(fl))
             n    == BToInt(fl) + (IF up THEN 1 ELSE 0)
         IN  IF a.neg THEN -n ELSE n

(***************************************************************************)
(* The inputs of process.                                                  *)
(***************************************************************************)
\* the sides 0..MaxSide are all tried, in every combination
MaxSide == 6

\* the batch holds 1..MaxBatch images
MaxBatch == 2

RESOLUTIONS == {"480p", "720p"}

\* a preset string outside RESOLUTIONS, as a caller other than the host's
\* combo box may pass
Presets == RESOLUTIONS \cup {"1080p"}

\* <<width, height>> of larger inputs: the usual video and photo sizes, very
\* wide and very tall strips, and sizes on the classification boundary
LargeSizes ==
    { <<1000, 500>>, <<400, 400>>, <<300, 900>>, <<50, 50>>,
      <<1920, 1080>>, <<1080, 1920>>, <<852, 480>>, <<1280, 720>>,
      <<720, 1280>>, <<640, 480>>, <<512, 512>>, <<49, 49>>, <<47, 47>>,
      <<25, 18>>, <<18, 25>>, <<25, 32>>, <<32, 25>>, <<50, 36>>,
      <<16, 9>>, <<9, 16>>, <<11, 22>>, <<19, 71>>, <<12, 17>>,
      <<1000, 1>>, <<1, 1000>>, <<2000, 3>> }

Sizes == ((0..MaxSide) \X (0..MaxSide)) \cup LargeSizes

(***************************************************************************)
(* The pure parts of process.                                              *)
(***************************************************************************)
ar_square == FInt(1)

ar_wide_landscape == FDiv(FInt(16), FInt(9))

ar_wide_portrait == FDiv(FInt(9), FInt(16))

\* aspect_ratio of lines 50-53
AspectRatio(w, h) ==
    IF h = 0 \/ w = 0 THEN FInt(1) ELSE FDiv(FInt(w), FInt(h))

\* IsSquareIsh with <= for <: a tie counts as square
IsSquareIshLoose(ar) ==
    LET diff_to_square == FAbs(FSub(ar, FInt(1)))
        diff_to_wide   == FMin(FAbs(FSub(ar, FDiv(FInt(16), FInt(9)))),
                               FAbs(FSub(ar, FDiv(FInt(9), FInt(16)))))
    IN  FCmp(diff_to_square, diff_to_wide) <= 0

\* is_square_ish of lines 58-60
IsSquareIsh(ar) ==
    LET diff_to_square == FAbs(FSub(ar, ar_square))
        diff_to_wide   == FMin(FAbs(FSub(ar, ar_wide_landscape)),
                               FAbs(FSub(ar, ar_wide_portrait)))
    IN  FLess(diff_to_square, diff_to_wide)

\* Target with the orientation test turned around (w > h for w < h)
TargetSwapped(preset, square, w, h) ==
    IF preset = "480p"
    THEN IF square THEN <<512, 512>>
         ELSE IF w > h THEN <<480, 852>> ELSE <<852, 480>>
    ELSE IF preset = "720p"
    THEN IF square THEN <<768, 768>>
         ELSE IF w > h THEN <<720, 1280>> ELSE <<1280, 720>>
    ELSE <<0, 0>>

\* Target with a plain else for the elif of line 74
TargetElse(preset, square, w, h) ==
    IF preset = "480p"
    THEN IF square THEN <<512, 512>>
         ELSE IF w < h THEN <<480, 852>> ELSE <<852, 480>>
    ELSE IF square THEN <<768, 768>>
         ELSE IF w < h THEN <<720, 1280>> ELSE <<1280, 720>>

\* <<target_width, target_height>> of lines 65-81
Target(preset, square, w, h) ==
    IF preset = "480p"
    THEN IF square THEN <<512, 512>>
         ELSE IF w < h THEN <<480, 852>> ELSE <<852, 480>>
    ELSE IF preset = "720p"
    THEN IF square THEN <<768, 768>>
         ELSE IF w < h THEN <<720, 1280>> ELSE <<1280, 720>>
    ELSE <<0, 0>>

\* PadPlan with the comparison of line 103 turned around: the image is fitted
\* to the axis it overflows
PadPlanFlipped(img_width, img_height, tw, th) ==
    LET original_aspect_ratio ==
            IF img_height # 0 THEN FDiv(FInt(img_width), FInt(img_height))
            ELSE FInt(1)
        target_aspect_ratio ==
            IF th # 0 THEN FDiv(FInt(tw), FInt(th)) ELSE FInt(1)
        wider == FLess(original_aspect_ratio, target_aspect_ratio)
        sw == IF wider THEN tw
              ELSE FTrunc(FMul(FInt(th), original_aspect_ratio))
        sh == IF wider THEN FTrunc(FDiv(FInt(tw), original_aspect_ratio))
              ELSE th
    IN  [scaled_width |-> sw, scaled_height |-> sh,
         paste_x |-> (tw - sw) \div 2, paste_y |-> (th - sh) \div 2]

\* the pad branch, lines 100-120
PadPlan(img_width, img_height, tw, th) ==
    LET original_aspect_ratio ==
            IF img_height # 0 THEN FDiv(FInt(img_width), FInt(img_height))
            ELSE FInt(1)
        target_aspect_ratio ==
            IF th # 0 THEN FDiv(FInt(tw), FInt(th)) ELSE FInt(1)
        wider == FGreater(original_aspect_ratio, target_aspect_ratio)
        sw == IF wider THEN tw
              ELSE FTrunc(FMul(FInt(th), original_aspect_ratio))
        sh == IF wider THEN FTrunc(FDiv(FInt(tw), original_aspect_ratio))
              ELSE th
    IN  [scaled_width |-> sw, scaled_height |-> sh,
         paste_x |-> (tw - sw) \div 2, paste_y |-> (th - sh) \div 2]

\* whether the comparison of line 129 divides by zero: img_width / img_height
\* or target_width / target_height
CropTestRaises(img_width, img_height, tw, th) == img_height = 0 \/ th = 0

\* whether the scaling after a comparison that raised nothing divides by
\* zero: a width of 0 is not wider than the target, and line 134 divides
\* target_width by it (line 131 divides by img_height, which is not 0 here)
CropScaleRaises(img_width, img_height, tw, th) == img_width = 0

\* <<new_width, new_height>> of lines 129-134, when nothing divides by zero
CropScale(img_width, img_height, tw, th) ==
    IF FGreater(FDiv(FInt(img_width), FInt(img_height)),
                FDiv(FInt(tw), FInt(th)))
    THEN <<FTrunc(FMul(FInt(img_width), FDiv(FInt(th), FInt(img_height)))), th>>
    ELSE <<tw, FTrunc(FMul(FInt(img_height), FDiv(FInt(tw), FInt(img_width))))>>

\* CropBox with target_width for target_height in bottom
CropBoxSlip(nw, nh, tw, th) ==
    [left   |-> FDiv(FInt(nw - tw), FInt(2)),
     top    |-> FDiv(FInt(nh - th), FInt(2)),
     right  |-> FDiv(FInt(nw + tw), FInt(2)),
     bottom |-> FDiv(FInt(nh + tw), FInt(2))]

\* (left, top, right, bottom) of lines 139-142: floats
CropBox(nw, nh, tw, th) ==
    [left   |-> FDiv(FInt(nw - tw), FInt(2)),
     top    |-> FDiv(FInt(nh - th), FInt(2)),
     right  |-> FDiv(FInt(nw + tw), FInt(2)),
     bottom |-> FDiv(FInt(nh + th), FInt(2))]

\* Image.crop of line 144 rounds each edge of the box with round() and
\* returns an image of the box's size, whether or not the box lies inside
\* the image it crops
CropSize(box) ==
    <<PyRound(box.right) - PyRound(box.left),
      PyRound(box.bottom) - PyRound(box.top)>>

\* Image.resize of lines 113 and 137 raises ValueError ("height and width
\* must be > 0") for a size with a side below 1
ResizeRaises(w, h) == w < 1 \/ h < 1

\* Collect that puts the new result first
CollectFront(results, out) == <<out>> \o results

\* processed_images.append of line 148
Collect(results, out) == Append(results, out)

(***************************************************************************)
(* process as a state machine.  pc is the section of process about to run: *)
(* "classify" (lines 49-60), "select" (64-81), "loop" (85-148, one step    *)
(* per image), "done" (after the return of line 152) or "error" (an        *)
(* exception left process).  The conversions of lines 90 and 146-147       *)
(* between tensors and PIL images keep an image's size and raise nothing.  *)
(***************************************************************************)
VARIABLES
    image,              \* the batch: the images' identities, in order
    original_width, original_height, resolution_preset, pad_image,
    pc, error,
    aspect_ratio, is_square_ish,
    target_width, target_height,
    consumed,           \* images the for loop of line 87 has taken
    processed_images,   \* [src, width, height] of every result
    scaled_width, scaled_height, paste_x, paste_y,
    new_width, new_height, left, top, right, bottom,
    final_batch

inputs == <<image, original_width, original_height, resolution_preset, pad_image>>

padvars == <<scaled_width, scaled_height, paste_x, paste_y>>

cropvars == <<new_width, new_height, left, top, right, bottom>>

vars == <<inputs, pc, error, aspect_ratio, is_square_ish, target_width,
          target_height, consumed, processed_images, padvars, cropvars,
          final_batch>>

Init ==
    /\ \E n \in 1..MaxBatch : image = [i \in 1..n |-> i]
    /\ \E s \in Sizes : original_width = s[1] /\ original_height = s[2]
    /\ resolution_preset \in Presets
    /\ pad_image \in BOOLEAN
    /\ pc = "classify"
    /\ error = "none"
    /\ aspect_ratio = FZero
    /\ is_square_ish = FALSE
    /\ target_width = 0
    /\ target_height = 0
    /\ consumed = 0
    /\ processed_images = <<>>
    /\ scaled_width = 0 /\ scaled_height = 0 /\ paste_x = 0 /\ paste_y = 0
    /\ new_width = 0 /\ new_height = 0
    /\ left = FZero /\ top = FZero /\ right = FZero /\ bottom = FZero
    /\ final_batch = <<>>

\* lines 49-60
Classify ==
    /\ pc = "classify"
    /\ aspect_ratio' = AspectRatio(original_width, original_height)
    /\ is_square_ish' = IsSquareIsh(aspect_ratio')
    /\ pc' = "select"
    /\ UNCHANGED <<inputs, error, target_width, target_height, consumed,
                   processed_images, padvars, cropvars, final_batch>>

\* lines 64-86
SelectTarget ==
    /\ pc = "select"
    /\ LET t == Target(resolution_preset, is_square_ish,
                       original_width, original_height)
       IN  target_width' = t[1] /\ target_height' = t[2]
    /\ pc' = "loop"
    /\ UNCHANGED <<inputs, error, aspect_ratio, is_square_ish, consumed,
                   processed_images, padvars, cropvars, final_batch>>

\* one pass of the loop body with pad_image set, lines 87-124 and 146-148;
\* every image of the batch has the batch's width and height
PadImage ==
    /\ pc = "loop" /\ consumed < Len(image) /\ pad_image
    /\ LET plan == PadPlan(original_width, original_height,
                           target_width, target_height)
       IN  /\ scaled_width' = plan.scaled_width
           /\ scaled_height' = plan.scaled_height
           /\ IF ResizeRaises(plan.scaled_width, plan.scaled_height)
              THEN /\ pc' = "error" /\ error' = "ValueError"
                   /\ UNCHANGED <<paste_x, paste_y, processed_images>>
              ELSE /\ paste_x' = plan.paste_x
                   /\ paste_y' = plan.paste_y
                   /\ processed_images' =
                          Collect(processed_images,
                                  [src |-> image[consumed + 1],
                                   width |-> target_width,
                                   height |-> target_height])
                   /\ UNCHANGED <<pc, error>>
    /\ consumed' = consumed + 1
    /\ UNCHANGED <<inputs, aspect_ratio, is_square_ish, target_width,
                   target_height, cropvars, final_batch>>

\* one pass of the loop body with pad_image clear, lines 87-93 and 125-148
CropImage ==
    /\ pc = "loop" /\ consumed < Len(image) /\ ~pad_image
    /\ consumed' = consumed + 1
    /\ IF CropTestRaises(original_width, original_height,
                         target_width, target_height)
       THEN /\ pc' = "error" /\ error' = "ZeroDivisionError"
            /\ UNCHANGED <<cropvars, processed_images>>
       ELSE IF CropScaleRaises(original_width, original_height,
                               target_width, target_height)
       THEN /\ new_width' = target_width
            /\ pc' = "error" /\ error' = "ZeroDivisionError"
            /\ UNCHANGED <<new_height, left, top, right, bottom,
                           processed_images>>
       ELSE LET n == CropScale(original_width, original_height,
                               target_width, target_height)
            IN  /\ new_width' = n[1]
                /\ new_height' = n[2]
                /\ IF ResizeRaises(n[1], n[2])
                   THEN /\ pc' = "error" /\ error' = "ValueError"
                        /\ UNCHANGED <<left, top, right, bottom,
                                       processed_images>>
                   ELSE LET box  == CropBox(n[1], n[2], target_width,
                                            target_height)
                            size == CropSize(box)
                        IN  /\ left' = box.left /\ top' = box.top
                            /\ right' = box.right /\ bottom' = box.bottom
                            /\ processed_images' =
                                   Collect(processed_images,
                                           [src |-> image[consumed + 1],
                                            width |-> size[1],
                                            height |-> size[2]])
                            /\ UNCHANGED <<pc, error>>
    /\ UNCHANGED <<inputs, aspect_ratio, is_square_ish, target_width,
                   target_height, padvars, final_batch>>

\* lines 150-152: the loop is over, the results are stacked and returned
Stack ==
    /\ pc = "loop" /\ consumed = Len(image)
    /\ final_batch' = processed_images
    /\ pc' = "done"
    /\ UNCHANGED <<inputs, error, aspect_ratio, is_square_ish, target_width,
                   target_height, consumed, processed_images, padvars,
                   cropvars>>

Next == Classify \/ SelectTarget \/ PadImage \/ CropImage \/ Stack

Spec == Init /\ [][Next]_vars

(***************************************************************************)
(* The properties.                                                         *)
(***************************************************************************)
ValidInput ==
    /\ original_width >= 1 /\ original_height >= 1
    /\ resolution_preset \in RESOLUTIONS

Selected == pc \in {"loop", "done", "error"}

Results == 1..Len(processed_images)

\* the entry of the table of the specification for the classification and
\* orientation of the input
TableEntry ==
    IF resolution_preset = "480p"
    THEN (IF is_square_ish THEN <<512, 512>>
          ELSE IF original_width < original_height THEN <<480, 852>>
          ELSE <<852, 480>>)
    ELSE (IF is_square_ish THEN <<768, 768>>
          ELSE IF original_width < original_height THEN <<720, 1280>>
          ELSE <<1280, 720>>)

\* C1: for positive width and height and a preset of RESOLUTIONS, every
\* image collected, and every image of the returned batch, is exactly
\* target_width x target_height, in pad mode and in crop mode; in crop mode
\* the rounded edges of the crop box are target_width and target_height apart
C1_OutputHasTargetSize ==
    ValidInput =>
        /\ \A i \in Results :
               /\ processed_images[i].width = target_width
               /\ processed_images[i].height = target_height
        /\ \A i \in 1..Len(final_batch) :
               /\ final_batch[i].width = target_width
               /\ final_batch[i].height = target_height
        /\ (~pad_image /\ Len(processed_images) >= 1) =>
               /\ PyRound(right) - PyRound(left) = target_width
               /\ PyRound(bottom) - PyRound(top) = target_height

\* a crop of an image smaller than the target has been returned, the top and
\* bottom edges of its box falling on half pixels
C1_Witness ==
    /\ ValidInput /\ ~pad_image /\ pc = "done" /\ Len(final_batch) >= 1
    /\ original_width < target_width /\ original_height < target_height
    /\ top.e < 0

\* C2: the target is the table's entry for (preset, is_square_ish,
\* original_width < original_height), hence one of six sizes, and an input
\* with equal width and height gets the square target
C2_TargetFromTable ==
    (ValidInput /\ Selected) =>
        /\ <<target_width, target_height>> = TableEntry
        /\ <<target_width, target_height>> \in
               { <<512, 512>>, <<852, 480>>, <<480, 852>>,
                 <<768, 768>>, <<1280, 720>>, <<720, 1280>> }
        /\ original_width = original_height =>
               <<target_width, target_height>> \in { <<512, 512>>, <<768, 768>> }

\* a portrait input that is not square-ish got the 480p portrait target
C2_Witness ==
    /\ ValidInput /\ Selected /\ ~is_square_ish
    /\ original_width < original_height
    /\ <<target_width, target_height>> = <<480, 852>>

\* C3: while the loop runs the results collected are as many as the images
\* consumed, the i-th of them made from the i-th image; the returned batch
\* holds one result per image of the input, in the input's order
C3_BatchPreserved ==
    /\ pc \in {"loop", "done"} =>
           /\ Len(processed_images) = consumed
           /\ \A i \in Results : processed_images[i].src = image[i]
    /\ pc = "done" =>
           /\ Len(final_batch) = Len(image)
           /\ \A i \in 1..Len(image) : final_batch[i].src = image[i]

\* a batch of two or more images has been returned
C3_Witness == pc = "done" /\ Len(image) >= 2 /\ Len(final_batch) = Len(image)

\* C4: in crop mode, for positive width and height and a preset of
\* RESOLUTIONS, the scaled image covers the target on both axes and the
\* crop box lies inside it
C4_CropCoversTarget ==
    (ValidInput /\ ~pad_image /\ Len(processed_images) >= 1) =>
        /\ new_width >= target_width
        /\ new_height >= target_height
        /\ ~left.neg /\ ~top.neg
        /\ FCmp(right, FInt(new_width)) <= 0
        /\ FCmp(bottom, FInt(new_height)) <= 0

\* C5: in pad mode, for positive width and height and a preset of
\* RESOLUTIONS, the scaled image fits the target on both axes, and the
\* rectangle it is pasted into lies inside the canvas
C5_PadFitsTarget ==
    (ValidInput /\ pad_image /\ consumed >= 1) =>
        /\ scaled_width <= target_width
        /\ scaled_height <= target_height
        /\ Len(processed_images) >= 1 =>
               /\ paste_x >= 0 /\ paste_y >= 0
               /\ paste_x + scaled_width <= target_width
               /\ paste_y + scaled_height <= target_height

\* a padded image with borders above and below has been returned
C5_Witness ==
    /\ ValidInput /\ pad_image /\ pc = "done"
    /\ paste_y > 0 /\ scaled_height < target_height
    /\ scaled_width = target_width

\* C6: for positive width and height and a preset of RESOLUTIONS no error
\* leaves process, and both sides handed to the resampling are at least 1
C6_Total ==
    ValidInput =>
        /\ error = "none"
        /\ (pad_image /\ consumed >= 1) =>
               scaled_width >= 1 /\ scaled_height >= 1
        /\ (~pad_image /\ consumed >= 1) =>
               new_width >= 1 /\ new_height >= 1

\* C7: with a width or a height of 0 the aspect ratio is 1.0, the image is
\* square-ish and gets the square target, and nothing divides by zero, in
\* pad mode and in crop mode
C7_ZeroTolerated ==
    ((original_width = 0 \/ original_height = 0)
        /\ resolution_preset \in RESOLUTIONS) =>
        /\ pc # "classify" => (aspect_ratio = FInt(1) /\ is_square_ish)
        /\ Selected =>
               <<target_width, target_height>> =
                   (IF resolution_preset = "480p" THEN <<512, 512>>
                    ELSE <<768, 768>>)
        /\ error # "ZeroDivisionError"

\* C8: for positive width and height and a preset of RESOLUTIONS, one axis
\* of the scaled image is the target's and the other is the round-down of
\* the exactly proportional value: at most it, and less than 1 below it
C8_AspectPreserved ==
    (ValidInput /\ consumed >= 1) =>
        IF pad_image
        THEN \/ /\ scaled_width = target_width
                /\ scaled_height * original_width
                       <= target_width * original_height
                /\ target_width * original_height
                       < (scaled_height + 1) * original_width
             \/ /\ scaled_height = target_height
                /\ scaled_width * original_height
                       <= target_height * original_width
                /\ target_height * original_width
                       < (scaled_width + 1) * original_height
        ELSE \/ /\ new_height = target_height
                /\ new_width * original_height
                       <= target_height * original_width
                /\ target_height * original_width
                       < (new_width + 1) * original_height
             \/ /\ new_width = target_width
                /\ new_height * original_width
                       <= target_width * original_height
                /\ target_width * original_height
                       < (new_height + 1) * original_width

\* the input is as far from square as from the nearest wide ratio:
\* width : height is 25 : 18 or 25 : 32
Tie ==
    /\ original_width >= 1
    /\ \/ 18 * original_width = 25 * original_height
       \/ 32 * original_width = 25 * original_height

\* C9: is_square_ish is true for equal width and height, false for 16:9 and
\* 9:16, and false for a tie, which gets the wide entry of the table
C9_TiesFavorWide ==
    /\ (pc # "classify" /\ original_width >= 1 /\ original_height >= 1) =>
           /\ original_width = original_height => is_square_ish
           /\ 9 * original_width = 16 * original_height => ~is_square_ish
           /\ 16 * original_width = 9 * original_height => ~is_square_ish
           /\ Tie => ~is_square_ish
    /\ (Selected /\ Tie /\ resolution_preset \in RESOLUTIONS) =>
           <<target_width, target_height>> =
               (IF resolution_preset = "480p"
                THEN (IF original_width < original_height
                      THEN <<480, 852>> ELSE <<852, 480>>)
                ELSE (IF original_width < original_height
                      THEN <<720, 1280>> ELSE <<1280, 720>>))

\* a 25:32 input, whose two differences are the same float, got the 480p
\* portrait target
C9_Witness ==
    /\ Selected /\ Tie /\ original_width < original_height
    /\ ~is_square_ish
    /\ <<target_width, target_height>> = <<480, 852>>

\* C10: with a preset outside RESOLUTIONS the selection raises nothing and
\* the loop is entered, and run, with target_width = target_height = 0
C10_UnknownPresetUnset ==
    (resolution_preset \notin RESOLUTIONS /\ Selected) =>
        /\ target_width = 0 /\ target_height = 0
        /\ (pc = "loop" /\ consumed = 0) => error = "none"

\* the loop is about to start with a preset outside RESOLUTIONS
C10_Witness ==
    /\ resolution_preset \notin RESOLUTIONS
    /\ pc = "loop" /\ consumed = 0 /\ error = "none"
    /\ original_width >= 1 /\ original_height >= 1

====
